---- MODULE Spec2Model ----
(***************************************************************************)
(* Model of src/app.py: the WhatsApp bot of chatbot_precatorios.           *)
(*                                                                         *)
(* State: the two Supabase tables the program reads and writes             *)
(* (WhatsAppContacts, WhatsAppMessages), the messages handed to Twilio,    *)
(* the locals and response of the last HTTP request that was served, and   *)
(* the webhook requests in flight.                                         *)
(* One action per Flask route.  A request is served in one step; the       *)
(* external calls that may raise (Supabase .execute(), Twilio .create())   *)
(* raise or not by a choice of the environment.  SpecConc serves webhook   *)
(* requests one store or provider call at a time, interleaved.             *)
(*                                                                         *)
(* Text is a sequence of one-character strings, so that `in`, startswith,  *)
(* strip and lower are computed character by character.                    *)
(***************************************************************************)
EXTENDS Integers, Sequences, FiniteSets, TLC

VARIABLES contacts, messages, sent, clock, last, inflight

vars == <<contacts, messages, sent, clock, last, inflight>>

(* ------------------------------------------------------------------ *)
(* Bounds of the model                                                 *)
(* ------------------------------------------------------------------ *)

\* number of requests served in one behaviour
MaxClock == 4

\* number of requests served in one behaviour of SpecFault
MaxFaultClock == 3

\* number of requests served in one behaviour of SpecPoller
MaxPollClock == 3

\* number of requests received in one behaviour of SpecConc
MaxConcClock == 3

\* number of contacts submitted (alone or in batches) and of webhook calls in one
\* behaviour of SpecTrigger; a batch is at most as long as what is left of it
MaxItems == 3

(* ------------------------------------------------------------------ *)
(* Text                                                                *)
(* ------------------------------------------------------------------ *)

\* Python None (a key absent from the payload, a NULL column)
None == <<"None">>

\* `not x` for an optional string: None and "" are falsy
Falsy(x) == x = None \/ x = <<>>

\* tok in s   (Python substring test)
Contains(tok, s) ==
    \E i \in 0..(Len(s) - Len(tok)) : SubSeq(s, i + 1, i + Len(tok)) = tok

\* s.startswith(p)
StartsWith(s, p) == Len(s) >= Len(p) /\ SubSeq(s, 1, Len(p)) = p

\* str.lower(), on the characters the model uses
LowerChar(c) ==
    CASE c = "S" -> "s"
      [] c = "I" -> "i"
      [] c = "M" -> "m"
      [] c = "N" -> "n"
      [] c = "O" -> "o"
      [] c = "A" -> "a"
      [] c = "Ã" -> "ã"
      [] OTHER -> c

Lower(s) == [i \in 1..Len(s) |-> LowerChar(s[i])]

IsSpace(c) == c \in {" ", "\n", "\t"}

RECURSIVE LStrip(_)
LStrip(s) == IF s # <<>> /\ IsSpace(Head(s)) THEN LStrip(Tail(s)) ELSE s

RECURSIVE RStrip(_)
RStrip(s) ==
    IF s # <<>> /\ IsSpace(s[Len(s)]) THEN RStrip(SubSeq(s, 1, Len(s) - 1)) ELSE s

\* str.strip()
Strip(s) == RStrip(LStrip(s))

\* keyword literals of the webhook
K_atendente == <<"a","t","e","n","d","e","n","t","e">>
K_preenchido == <<"p","r","e","e","n","c","h","i","d","o">>
K_sim == <<"s","i","m">>
K_s == <<"s">>
K_yes == <<"y","e","s">>
K_quero == <<"q","u","e","r","o">>
K_nao_til == <<"n","ã","o">>
K_nao == <<"n","a","o">>
K_n == <<"n">>
K_no == <<"n","o">>

\* the transport-scheme prefix
K_whatsapp == <<"w","h","a","t","s","a","p","p",":">>

\* the token lists written in the four `any(x in body for x in [...])`
AfirmativoInicialSemQuero == {K_sim, K_s, K_yes}
AfirmativoInicial == {K_sim, K_s, K_yes, K_quero}
NegativoInicialSemN == {K_nao_til, K_nao, K_no}
NegativoInicial == {K_nao_til, K_nao, K_n, K_no}
AfirmativoOferta == {K_sim, K_s, K_yes}
NegativoOferta == {K_nao_til, K_nao, K_n, K_no}

\* any(x in body for x in toks)
AnyIn(toks, body) == \E x \in toks : Contains(x, body)

\* os.getenv('TERMO_URL', 'http://seusite.com/termo.docx')
TERMO_URL == "http://seusite.com/termo.docx"

(* ------------------------------------------------------------------ *)
(* Outbound texts: the literal segments and the interpolated values    *)
(* of each f-string, in order                                          *)
(* ------------------------------------------------------------------ *)

MsgAtendente == <<"Certo! Um de nossos especialistas entrara em contato em breve. Obrigado!">>

MsgTermo(contact_name) ==
    <<"Excelente, ", contact_name, "! ... Acesse o termo aqui: ", TERMO_URL,
      " Apos o preenchimento, envie a palavra *preenchido* para prosseguirmos.">>

MsgOfertaFutura(contact_name) ==
    <<"Entendido, ", contact_name,
      "! ... Aceita que a Winston envie propostas futuras? Responda com *SIM* ou *NAO*.">>

MsgNaoEntendi(contact_name) ==
    <<"Ola ", contact_name,
      ", nao entendi sua resposta. Por favor, responda com 'SIM' para prosseguir ou 'NAO' para encerrar.">>

MsgConfirmado(contact_name) ==
    <<"Confirmado, ", contact_name, "! Manteremos seu contato para futuras oportunidades.">>

MsgFinal(contact_name) ==
    <<"Entendido, ", contact_name,
      ". Respeitamos sua decisao. ... Obrigado pela atencao! Winston Servicos Corporativos">>

MsgPosTermo(contact_name) ==
    <<"Agradecemos a confianca, ", contact_name,
      "! ... Atenciosamente, Winston Servicos Corporativos.">>

MsgLembreteTermo ==
    <<"Ainda estamos aguardando o preenchimento do termo. Assim que o fizer, por favor, envie a palavra *preenchido*.">>

\* no reply, no update
NoReply == <<>>
NoUpdate == <<>>
HasUpdate(u) == DOMAIN u # {}

\* a name that is None
NoName == "<None>"

\* dict.get(key, default): a payload is a record holding the keys it was sent with
Get(data, key, default) == IF key \in DOMAIN data THEN data[key] ELSE default

(* ------------------------------------------------------------------ *)
(* The tables                                                          *)
(* ------------------------------------------------------------------ *)

\* a NULL timestamp column
NoTime == 0

\* the row an upsert inserts: the given columns, the others at their default
NewRow(id, contact_data) ==
    [id |-> id,
     phone |-> contact_data.phone,
     name |-> contact_data.name,
     status |-> contact_data.status,
     automationStatus |-> contact_data.automationStatus,
     lastMessage |-> None,
     lastTimestamp |-> NoTime,
     unread |-> FALSE,
     termo_enviado_em |-> NoTime]

\* the given columns of a row overwritten, the others kept
SetColumns(row, fields) ==
    [k \in DOMAIN row |-> IF k \in DOMAIN fields THEN fields[k] ELSE row[k]]

\* an upsert that replaces the whole row on conflict
UpsertSubstitui(rows, contact_data) ==
    IF \E i \in 1..Len(rows) : rows[i].phone = contact_data.phone
    THEN [i \in 1..Len(rows) |->
            IF rows[i].phone = contact_data.phone
            THEN NewRow(i, contact_data)
            ELSE rows[i]]
    ELSE Append(rows, NewRow(Len(rows) + 1, contact_data))

\* an insert in place of the upsert
UpsertInsere(rows, contact_data) == Append(rows, NewRow(Len(rows) + 1, contact_data))

\* table('WhatsAppContacts').upsert(contact_data, on_conflict='phone').execute()
Upsert(rows, contact_data) ==
    IF \E i \in 1..Len(rows) : rows[i].phone = contact_data.phone
    THEN [i \in 1..Len(rows) |->
            IF rows[i].phone = contact_data.phone
            THEN SetColumns(rows[i], contact_data)
            ELSE rows[i]]
    ELSE Append(rows, NewRow(Len(rows) + 1, contact_data))

\* table('WhatsAppContacts').select(...).eq('phone', phone).limit(1).execute().data
SelectSemFiltro(rows, phone) == rows
SelectByPhone(rows, phone) == SelectSeq(rows, LAMBDA r : r.phone = phone)

\* table('WhatsAppContacts').update(fields).eq('id', contact_id).execute()
UpdateById(rows, contact_id, fields) ==
    [i \in 1..Len(rows) |->
        IF rows[i].id = contact_id THEN SetColumns(rows[i], fields) ELSE rows[i]]

\* twilio_client.messages.create(...): the message handed to Twilio, delivered or not
Outbound(to, kind, text, ok, now) ==
    [to |-> to, kind |-> kind, text |-> text, ok |-> ok, at |-> now]

(* ------------------------------------------------------------------ *)
(* webhook: the conversation (the branches after the inbound message   *)
(* is stored).  reply: the text given to enviar_whatsapp, or NoReply;  *)
(* update: the columns written afterwards, or NoUpdate.                *)
(* ------------------------------------------------------------------ *)

\* the columns written when the term is confirmed
PosTermoUpdateSemData(now) == [status |-> "pos_termo"]
PosTermoUpdate(now) == [status |-> "pos_termo", termo_enviado_em |-> now]

\* "preenchido" in body
TermoPreenchidoFrouxo(body) == AnyIn({K_preenchido, K_sim}, body)
TermoPreenchido(body) == Contains(K_preenchido, body)

\* the handler of "atendente"
Atendente ==
    [reply |-> MsgAtendente,
     update |-> [status |-> "Aguardando Vendedor", automationStatus |-> "Pausada"]]

\* a reminder sent for the statuses the chain has no branch for
SemRamoLembra == [reply |-> MsgLembreteTermo, update |-> NoUpdate]

\* the if/elif chain has no else: a status without a branch gets nothing
SemRamo == [reply |-> NoReply, update |-> NoUpdate]

\* the main conversation flow: the if/elif chain on current_status
FluxoPrincipal(current_status, body, contact_name, now) ==
    IF current_status = "inicial"
    THEN IF AnyIn(AfirmativoInicial, body)
         THEN [reply |-> MsgTermo(contact_name),
               update |-> [status |-> "aguardando_termo"]]
         ELSE IF AnyIn(NegativoInicial, body)
         THEN [reply |-> MsgOfertaFutura(contact_name),
               update |-> [status |-> "oferta_futura"]]
         ELSE [reply |-> MsgNaoEntendi(contact_name), update |-> NoUpdate]
    ELSE IF current_status = "oferta_futura"
    THEN IF AnyIn(AfirmativoOferta, body)
         THEN [reply |-> MsgConfirmado(contact_name),
               update |-> [status |-> "aguardando_oferta_futura",
                           automationStatus |-> "Pausada"]]
         ELSE IF AnyIn(NegativoOferta, body)
         THEN [reply |-> MsgFinal(contact_name),
               update |-> [status |-> "recusou_contato_futuro",
                           automationStatus |-> "Concluída"]]
         ELSE [reply |-> NoReply, update |-> NoUpdate]
    ELSE IF current_status = "aguardando_termo"
    THEN IF TermoPreenchido(body)
         THEN [reply |-> MsgPosTermo(contact_name),
               update |-> PosTermoUpdate(now)]
         ELSE [reply |-> MsgLembreteTermo, update |-> NoUpdate]
    ELSE SemRamo

\* the flow consulted first, "atendente" only when the flow has no answer
ConversaFluxoPrimeiro(current_status, body, contact_name, now) ==
    LET d == FluxoPrincipal(current_status, body, contact_name, now) IN
        IF d.reply # NoReply THEN d
        ELSE IF Contains(K_atendente, body) THEN Atendente ELSE d

Conversa(current_status, body, contact_name, now) ==
    IF Contains(K_atendente, body)
    THEN Atendente
    ELSE FluxoPrincipal(current_status, body, contact_name, now)

\* what a route returns: (body, HTTP status)
Response(body, code) == [body |-> body, code |-> code]

\* the answer of a webhook without the try/except: the exception reaches Flask
WebhookResponsePropaga(raised) ==
    IF raised THEN Response("Internal Server Error", 500) ELSE Response("OK", 200)

\* the webhook's answer: `return "OK", 200` on every path, the path through
\* `except Exception` (raised = TRUE) included
WebhookResponse(raised) == Response("OK", 200)

\* the inbound entry without the provider's message identifier
MessageDataSemSid(contact_id, original_body, now, message_sid) ==
    [contactId |-> contact_id, sender |-> "user", text |-> original_body,
     timestamp |-> now, messageIdFromApi |-> None]

\* message_data: the inbound entry of the message log
MessageData(contact_id, original_body, now, message_sid) ==
    [contactId |-> contact_id, sender |-> "user", text |-> original_body,
     timestamp |-> now, messageIdFromApi |-> message_sid]

\* a dispatcher without the try/except: the provider's refusal reaches the caller
EnviarWhatsappPropaga(out, to, body, now, sendFails) ==
    [sent |-> Append(out, Outbound(to, "text", body, ~sendFails, now)),
     sid |-> IF sendFails THEN None ELSE <<"SM-out", now>>,
     raised |-> sendFails]

\* enviar_whatsapp(to, body): msg.sid, or None when messages.create raises;
\* nothing is raised to the caller
EnviarWhatsapp(out, to, body, now, sendFails) ==
    [sent |-> Append(out, Outbound(to, "text", body, ~sendFails, now)),
     sid |-> IF sendFails THEN None ELSE <<"SM-out", now>>,
     raised |-> FALSE]

\* contact.get('name') or profile_name
ContactName(contact, profile_name) ==
    IF contact.name = "" \/ contact.name = NoName THEN profile_name ELSE contact.name

\* The places of webhook() where an exception can be raised by the store
WebhookFaults == {"none", "select", "insert", "update_last", "update_status"}

\* webhook(): the tables and the outbox after the request, and the request's locals.
\* data: the form payload; fault: the store call that raises; sendFails: whether
\* Twilio refuses the reply (enviar_whatsapp swallows that).
WebhookRun(rows, log, out, now, data, fault, sendFails) ==
    LET from_number_user == Get(data, "From", None)
        profile_name == Get(data, "ProfileName", "Cliente")
        body == Lower(Strip(Get(data, "Body", <<>>)))
        original_body == Strip(Get(data, "Body", <<>>))
        message_sid == Get(data, "MessageSid", None)
        locals == [op |-> "webhook", From |-> from_number_user, body |-> body,
                   original_body |-> original_body, fault |-> fault, found |-> FALSE,
                   contact_id |-> 0, current_status |-> NoName,
                   contact_name |-> NoName, raised |-> FALSE,
                   reply |-> NoReply, update |-> NoUpdate, at |-> now,
                   resp |-> WebhookResponse(FALSE)]
        Raised(l) == [l EXCEPT !.raised = TRUE, !.resp = WebhookResponse(TRUE)]
    IN
    IF Falsy(from_number_user)
    THEN [contacts |-> rows, messages |-> log, sent |-> out, last |-> locals]
    ELSE IF fault = "select"
    THEN [contacts |-> rows, messages |-> log, sent |-> out, last |-> Raised(locals)]
    ELSE
    LET data_ == SelectByPhone(rows, from_number_user) IN
    IF data_ = <<>>
    THEN [contacts |-> rows, messages |-> log, sent |-> out, last |-> locals]
    ELSE
    LET contact == data_[1]
        contact_id == contact.id
        current_status == contact.status
        contact_name == ContactName(contact, profile_name)
        locals1 == [locals EXCEPT !.found = TRUE, !.contact_id = contact_id,
                                  !.current_status = current_status,
                                  !.contact_name = contact_name]
        message_data == MessageData(contact_id, original_body, now, message_sid)
    IN
    IF fault = "insert"
    THEN [contacts |-> rows, messages |-> log, sent |-> out, last |-> Raised(locals1)]
    ELSE
    LET log1 == Append(log, message_data) IN
    IF fault = "update_last"
    THEN [contacts |-> rows, messages |-> log1, sent |-> out, last |-> Raised(locals1)]
    ELSE
    LET rows1 == UpdateById(rows, contact_id,
                            [lastMessage |-> original_body, lastTimestamp |-> now,
                             unread |-> TRUE])
        d == Conversa(current_status, body, contact_name, now)
        e == EnviarWhatsapp(out, from_number_user, d.reply, now, sendFails)
        out1 == IF d.reply = NoReply THEN out ELSE e.sent
        locals2 == [locals1 EXCEPT !.reply = d.reply, !.update = d.update]
    IN
    IF d.reply # NoReply /\ e.raised
    THEN [contacts |-> rows1, messages |-> log1, sent |-> out1, last |-> Raised(locals2)]
    ELSE IF ~HasUpdate(d.update)
    THEN [contacts |-> rows1, messages |-> log1, sent |-> out1, last |-> locals2]
    ELSE IF fault = "update_status"
    THEN [contacts |-> rows1, messages |-> log1, sent |-> out1, last |-> Raised(locals2)]
    ELSE [contacts |-> UpdateById(rows1, contact_id, d.update), messages |-> log1,
          sent |-> out1, last |-> locals2]

(* ------------------------------------------------------------------ *)
(* The triggers                                                        *)
(* ------------------------------------------------------------------ *)

\* os.getenv("TWILIO_TEMPLATE_SID")
template_sid == "HX-template"

\* the prefix added whatever the number starts with
NormalizaSempre(numero) == K_whatsapp \o numero

\* if not numero.startswith("whatsapp:"): numero = "whatsapp:" + numero
Normaliza(numero) ==
    IF ~StartsWith(numero, K_whatsapp) THEN K_whatsapp \o numero ELSE numero

\* The calls of disparar_e_registrar_contato_inicial that can raise
DisparoFaults == {"none", "upsert", "send"}

\* the except branch of disparar_e_registrar_contato_inicial
ResultadoErro(e) == [status |-> "erro", mensagem |-> e]

\* the template sent first and the contact stored afterwards
DispararEnviaPrimeiro(rows, out, now, numero, nome, fault) ==
    LET contact_data == [phone |-> numero, name |-> nome, status |-> "inicial",
                         automationStatus |-> "Ativa"]
        out1 == Append(out, Outbound(numero, "template",
                                     <<template_sid, "{\"1\":\"", nome, "\"}">>,
                                     fault # "send", now))
    IN
    IF fault = "send"
    THEN [contacts |-> rows, sent |-> out1,
          resultado |-> ResultadoErro("Twilio: messages.create failed")]
    ELSE IF fault = "upsert"
    THEN [contacts |-> rows, sent |-> out1,
          resultado |-> ResultadoErro("Falha ao salvar contato no Supabase")]
    ELSE [contacts |-> Upsert(rows, contact_data), sent |-> out1,
          resultado |-> [status |-> "sucesso", sid |-> Len(out1)]]

\* disparar_e_registrar_contato_inicial(numero, nome): the contacts table and the
\* outbox afterwards, and the dict returned.  fault: the call that raises.
Disparar(rows, out, now, numero, nome, fault) ==
    LET contact_data == [phone |-> numero, name |-> nome, status |-> "inicial",
                         automationStatus |-> "Ativa"]
    IN
    IF fault = "upsert"
    THEN [contacts |-> rows, sent |-> out,
          resultado |-> ResultadoErro("Falha ao salvar contato no Supabase")]
    ELSE
    LET rows1 == Upsert(rows, contact_data)
        out1 == Append(out, Outbound(numero, "template",
                                     <<template_sid, "{\"1\":\"", nome, "\"}">>,
                                     fault # "send", now))
    IN
    IF fault = "send"
    THEN [contacts |-> rows1, sent |-> out1,
          resultado |-> ResultadoErro("Twilio: messages.create failed")]
    ELSE [contacts |-> rows1, sent |-> out1,
          resultado |-> [status |-> "sucesso", sid |-> Len(out1)]]

\* api_disparar_template(): data is the JSON payload
DispararTemplateRun(rows, out, now, data, fault) ==
    LET to_number == Get(data, "numero", None)
        nome == Get(data, "nome", "Cliente")
        locals == [op |-> "disparar_template", data |-> data, fault |-> fault,
                   numero |-> to_number, at |-> now]
    IN
    IF Falsy(to_number)
    THEN [contacts |-> rows, sent |-> out,
          last |-> [locals EXCEPT !.fault = "none"] @@
                   [resp |-> Response(ResultadoErro("Numero de telefone ausente."), 400)]]
    ELSE
    LET numero == Normaliza(to_number)
        r == Disparar(rows, out, now, numero, nome, fault)
    IN [contacts |-> r.contacts, sent |-> r.sent,
        last |-> [locals EXCEPT !.numero = numero] @@
                 [resp |-> Response(r.resultado,
                                    IF r.resultado.status = "sucesso" THEN 200 ELSE 500)]]

\* the loop of api_disparar_lote() from item i on; faults[i] is the call that
\* raises while item i is processed, at tick now + i - 1
RECURSIVE LoteLoop(_, _, _, _, _, _, _)
LoteLoop(rows, out, now, contatos, faults, i, resultados) ==
    IF i > Len(contatos)
    THEN [contacts |-> rows, sent |-> out, resultados |-> resultados]
    ELSE
    LET contato == contatos[i]
        numero == Get(contato, "numero", None)
        nome == Get(contato, "nome", "Cliente")
    IN
    IF Falsy(numero)
    THEN LoteLoop(rows, out, now, contatos, faults, i + 1,
                  [resultados EXCEPT !.falhas =
                      Append(@, [contato |-> contato, motivo |-> "Número ausente"])])
    ELSE
    LET r == Disparar(rows, out, now + i - 1, Normaliza(numero), nome, faults[i]) IN
    IF r.resultado.status = "sucesso"
    THEN LoteLoop(r.contacts, r.sent, now, contatos, faults, i + 1,
                  [resultados EXCEPT !.sucessos =
                      Append(@, [contato |-> contato, sid |-> r.resultado.sid])])
    ELSE LoteLoop(r.contacts, r.sent, now, contatos, faults, i + 1,
                  [resultados EXCEPT !.falhas =
                      Append(@, [contato |-> contato, motivo |-> r.resultado.mensagem])])

\* a batch refused as a whole when one element has no number
DispararLoteRunAtomico(rows, out, now, data, faults) ==
    LET contatos == Get(data, "contatos", None)
        locals == [op |-> "disparar_lote", data |-> data, faults |-> faults,
                   at |-> now]
    IN
    IF \/ "contatos" \notin DOMAIN data
       \/ contatos = <<>>
       \/ \E i \in 1..Len(contatos) : Falsy(Get(contatos[i], "numero", None))
    THEN [contacts |-> rows, sent |-> out,
          last |-> locals @@
                   [resp |-> Response(ResultadoErro("A lista de 'contatos' e invalida ou ausente."), 400)]]
    ELSE
    LET r == LoteLoop(rows, out, now, contatos, faults, 1,
                      [sucessos |-> <<>>, falhas |-> <<>>])
    IN [contacts |-> r.contacts, sent |-> r.sent,
        last |-> locals @@ [resp |-> Response(r.resultados, 200)]]

\* api_disparar_lote(): data is the JSON payload
DispararLoteRun(rows, out, now, data, faults) ==
    LET contatos == Get(data, "contatos", None)
        locals == [op |-> "disparar_lote", data |-> data, faults |-> faults,
                   at |-> now]
    IN
    IF "contatos" \notin DOMAIN data \/ contatos = <<>>
    THEN [contacts |-> rows, sent |-> out,
          last |-> locals @@
                   [resp |-> Response(ResultadoErro("A lista de 'contatos' e invalida ou ausente."), 400)]]
    ELSE
    LET r == LoteLoop(rows, out, now, contatos, faults, 1,
                      [sucessos |-> <<>>, falhas |-> <<>>])
    IN [contacts |-> r.contacts, sent |-> r.sent,
        last |-> locals @@ [resp |-> Response(r.resultados, 200)]]

(* ------------------------------------------------------------------ *)
(* Requests                                                            *)
(* ------------------------------------------------------------------ *)

P1 == <<"+","1">>
P2 == <<"+","2">>
P3 == <<"+","3">>
Whats(p) == K_whatsapp \o p

\* message bodies as the provider delivers them
Bodies ==
    << <<"s","i","m">>, <<"s">>, <<"y","e","s">>, <<"q","u","e","r","o">>,
       <<"n","ã","o">>, <<"n","a","o">>, <<"n">>, <<"n","o">>,
       <<"o","i">>, <<" ","S","I","M"," ">>, <<"N","Ã","O">>,
       <<"n","a","o"," ","s","e","i">>,
       K_atendente, K_atendente \o <<" ">> \o K_sim, K_preenchido >>

\* POST /webhook payloads: every body from a sender, a payload without Body,
\* a payload without From
WebhookPayloads(now) ==
    { [From |-> Whats(P1), ProfileName |-> "Zed", Body |-> Bodies[i],
       MessageSid |-> <<"SM", now>>] : i \in 1..Len(Bodies) }
    \cup { [From |-> Whats(P3), ProfileName |-> "Zed", Body |-> b,
            MessageSid |-> <<"SM", now>>] : b \in {K_sim, K_atendente} }
    \cup { [From |-> Whats(P1), MessageSid |-> <<"SM", now>>],
           [Body |-> K_sim, MessageSid |-> <<"SM", now>>],
           [From |-> <<>>, Body |-> K_atendente, MessageSid |-> <<"SM", now>>] }

\* POST /api/disparar_template payloads
TemplatePayloads ==
    { [numero |-> P1, nome |-> "Ana"], [numero |-> Whats(P1)], [nome |-> "Ana"] }

Init ==
    /\ contacts = <<>>
    /\ messages = <<>>
    /\ sent = <<>>
    /\ clock = 0
    /\ last = [op |-> "start"]
    /\ inflight = <<>>

\* POST /webhook, served with the store calls succeeding
Webhook ==
    /\ clock < MaxClock
    /\ \E data \in WebhookPayloads(clock + 1) :
         LET r == WebhookRun(contacts, messages, sent, clock + 1, data, "none", FALSE) IN
            /\ contacts' = r.contacts
            /\ messages' = r.messages
            /\ sent' = r.sent
            /\ last' = r.last
            /\ UNCHANGED inflight
    /\ clock' = clock + 1

\* POST /api/disparar_template, served with the store and the provider succeeding
DispararTemplate ==
    /\ clock < MaxClock
    /\ \E data \in TemplatePayloads :
         LET r == DispararTemplateRun(contacts, sent, clock + 1, data, "none") IN
            /\ contacts' = r.contacts
            /\ sent' = r.sent
            /\ last' = r.last
            /\ UNCHANGED inflight
    /\ clock' = clock + 1
    /\ UNCHANGED messages

Next == Webhook \/ DispararTemplate

Spec == Init /\ [][Next]_vars

(* ------------------------------------------------------------------ *)
(* SpecFault: the same routes, with store and provider calls that may  *)
(* raise                                                               *)
(* ------------------------------------------------------------------ *)

\* what can go wrong in one webhook call: the store call that raises and whether
\* the provider refuses the reply.  A refused reply only matters on the paths
\* that reach enviar_whatsapp.
WebhookScenarios ==
    { <<f, FALSE>> : f \in WebhookFaults } \cup
    { <<f, TRUE>> : f \in {"none", "update_status"} }

WebhookPayloadsF(now) ==
    { [From |-> Whats(P1), ProfileName |-> "Zed", Body |-> b,
       MessageSid |-> <<"SM", now>>] :
          b \in {K_sim, K_n, K_atendente, K_preenchido, <<"o","i">>} }
    \cup { [From |-> Whats(P3), Body |-> K_sim, MessageSid |-> <<"SM", now>>],
           [Body |-> K_sim, MessageSid |-> <<"SM", now>>] }

TemplatePayloadsF == { [numero |-> P1, nome |-> "Ana"], [nome |-> "Ana"] }

\* POST /webhook
WebhookF ==
    /\ clock < MaxFaultClock
    /\ \E data \in WebhookPayloadsF(clock + 1), sc \in WebhookScenarios :
         LET r == WebhookRun(contacts, messages, sent, clock + 1, data, sc[1], sc[2]) IN
            /\ contacts' = r.contacts
            /\ messages' = r.messages
            /\ sent' = r.sent
            /\ last' = r.last
            /\ UNCHANGED inflight
    /\ clock' = clock + 1

\* POST /api/disparar_template
DispararTemplateF ==
    /\ clock < MaxFaultClock
    /\ \E data \in TemplatePayloadsF, fault \in DisparoFaults :
         LET r == DispararTemplateRun(contacts, sent, clock + 1, data, fault) IN
            /\ contacts' = r.contacts
            /\ sent' = r.sent
            /\ last' = r.last
            /\ UNCHANGED inflight
    /\ clock' = clock + 1
    /\ UNCHANGED messages

NextFault == WebhookF \/ DispararTemplateF

SpecFault == Init /\ [][NextFault]_vars

(* ------------------------------------------------------------------ *)
(* SpecTrigger: single and batch triggers with calls that may raise,   *)
(* and the webhook answers that take a contact out of "inicial"        *)
(* ------------------------------------------------------------------ *)

\* the elements of a "contatos" list: a bare number with a name, the same number
\* already prefixed and without "nome", an element without "numero", an element
\* with an empty "numero", another number
ItemKinds ==
    { [numero |-> P1, nome |-> "Ana"], [numero |-> Whats(P1)], [nome |-> "Bia"],
      [numero |-> <<>>, nome |-> "Ana"], [numero |-> P2, nome |-> "Bia"] }

\* the faults that make a difference for an element: none is reached without a number
FaultsFor(contato) ==
    IF Falsy(Get(contato, "numero", None)) THEN {"none"} ELSE DisparoFaults

\* the lists of n elements, and what may go wrong while each is processed
Lotes(n) == [1..n -> ItemKinds]
LoteFaults(contatos) ==
    { fs \in [1..Len(contatos) -> DisparoFaults] :
        \A i \in 1..Len(contatos) : fs[i] \in FaultsFor(contatos[i]) }

\* POST /api/disparar_template
DispararTemplateT ==
    /\ clock < MaxItems
    /\ \E data \in ItemKinds :
       \E fault \in FaultsFor(data) :
         LET r == DispararTemplateRun(contacts, sent, clock + 1, data, fault) IN
            /\ contacts' = r.contacts
            /\ sent' = r.sent
            /\ last' = r.last
            /\ UNCHANGED inflight
    /\ clock' = clock + 1
    /\ UNCHANGED messages

\* POST /api/disparar_lote with a list of contacts
DispararLote ==
    \E n \in 1..(MaxItems - clock) :
    \E contatos \in Lotes(n) :
    \E faults \in LoteFaults(contatos) :
       LET r == DispararLoteRun(contacts, sent, clock + 1,
                                [contatos |-> contatos], faults) IN
          /\ contacts' = r.contacts
          /\ sent' = r.sent
          /\ last' = r.last
          /\ UNCHANGED inflight
          /\ clock' = clock + n
          /\ UNCHANGED messages

\* POST /api/disparar_lote with an empty list, or without "contatos"
DispararLoteInvalido ==
    /\ clock < MaxItems
    /\ \E data \in {[contatos |-> <<>>], [outro |-> <<>>]} :
         LET r == DispararLoteRun(contacts, sent, clock + 1, data, <<>>) IN
            /\ contacts' = r.contacts
            /\ sent' = r.sent
            /\ last' = r.last
            /\ UNCHANGED inflight
    /\ clock' = clock + 1
    /\ UNCHANGED messages

\* POST /webhook: an answer of a triggered contact
WebhookT ==
    /\ clock < MaxItems
    /\ \E b \in {K_sim, K_atendente} :
         LET data == [From |-> Whats(P1), Body |-> b, MessageSid |-> <<"SM", clock + 1>>]
             r == WebhookRun(contacts, messages, sent, clock + 1, data, "none", FALSE)
         IN /\ contacts' = r.contacts
            /\ messages' = r.messages
            /\ sent' = r.sent
            /\ last' = r.last
            /\ UNCHANGED inflight
    /\ clock' = clock + 1

NextTrigger == DispararTemplateT \/ DispararLote \/ DispararLoteInvalido \/ WebhookT

SpecTrigger == Init /\ [][NextTrigger]_vars

(* ------------------------------------------------------------------ *)
(* SpecPoller: the routes and the follow-up poller.  The poller is not *)
(* in src/app.py, which only writes the termo_enviado_em it reads; it  *)
(* is modelled from section 4.5 of the specification.                  *)
(* ------------------------------------------------------------------ *)

\* the configured reminder delay, in ticks
FollowupDelay == 2

\* the reminder of the poller
MsgFollowup == <<"Ola! Ja se passou algum tempo desde o envio do termo. Podemos ajudar?">>

\* a row the poller selects and finds due at time now
Vencido(row, now) ==
    /\ row.status = "pos_termo"
    /\ row.termo_enviado_em # NoTime
    /\ now >= row.termo_enviado_em + FollowupDelay

\* one run of the poller at time now over the rows from i on: a reminder to
\* every due contact, which goes to "followup_enviado"
RECURSIVE PollerLoop(_, _, _, _)
PollerLoop(rows, out, now, i) ==
    IF i > Len(rows)
    THEN [contacts |-> rows, sent |-> out]
    ELSE IF Vencido(rows[i], now)
    THEN PollerLoop(UpdateById(rows, rows[i].id, [status |-> "followup_enviado"]),
                    Append(out, Outbound(rows[i].phone, "text", MsgFollowup, TRUE, now)),
                    now, i + 1)
    ELSE PollerLoop(rows, out, now, i + 1)

\* POST /api/disparar_template
DispararTemplateP ==
    /\ clock < MaxPollClock
    /\ LET r == DispararTemplateRun(contacts, sent, clock + 1,
                                    [numero |-> P1, nome |-> "Ana"], "none") IN
            /\ contacts' = r.contacts
            /\ sent' = r.sent
            /\ last' = r.last
    /\ clock' = clock + 1
    /\ UNCHANGED <<messages, inflight>>

\* POST /webhook
WebhookP ==
    /\ clock < MaxPollClock
    /\ \E b \in {K_sim, K_preenchido, K_atendente} :
         LET data == [From |-> Whats(P1), Body |-> b, MessageSid |-> <<"SM", clock + 1>>]
             r == WebhookRun(contacts, messages, sent, clock + 1, data, "none", FALSE)
         IN /\ contacts' = r.contacts
            /\ messages' = r.messages
            /\ sent' = r.sent
            /\ last' = r.last
    /\ clock' = clock + 1
    /\ UNCHANGED inflight

\* a run of the poller, at the current time
Poller ==
    /\ LET r == PollerLoop(contacts, sent, clock, 1) IN
            /\ contacts' = r.contacts
            /\ sent' = r.sent
    /\ last' = [op |-> "poller", at |-> clock]
    /\ UNCHANGED <<messages, clock, inflight>>

\* time passes with no request
Tick ==
    /\ clock < MaxPollClock + FollowupDelay + 1
    /\ clock' = clock + 1
    /\ UNCHANGED <<contacts, messages, sent, last, inflight>>

NextPoller == DispararTemplateP \/ WebhookP \/ Poller \/ Tick

\* the scheduler runs the poller at every interval and time does not stop
SpecPoller ==
    Init /\ [][NextPoller]_vars /\ WF_vars(Poller) /\ WF_vars(Tick)

(* ------------------------------------------------------------------ *)
(* SpecConc: webhook requests served concurrently.  Each request in     *)
(* flight keeps the locals of webhook() and the call it executes next;  *)
(* one step is one call to the store or to the provider, so the steps   *)
(* of two requests interleave.  The trigger is served between them.     *)
(* ------------------------------------------------------------------ *)

\* requests served at the same time
Workers == 2

\* the locals of a webhook request that has read its form
NovoPedido(data, now) ==
    [pc |-> "select",
     From |-> Get(data, "From", None),
     body |-> Lower(Strip(Get(data, "Body", <<>>))),
     original_body |-> Strip(Get(data, "Body", <<>>)),
     message_sid |-> Get(data, "MessageSid", None),
     at |-> now,
     contact_id |-> 0, current_status |-> NoName, contact_name |-> NoName]

\* the decision of a request, from the status it read
Decisao(r, now) == Conversa(r.current_status, r.body, r.contact_name, now)

\* the call after the last-message update: the reply, when there is one
AposUpdateLast(r, now) ==
    IF Decisao(r, now).reply # NoReply THEN "reply"
    ELSE IF HasUpdate(Decisao(r, now).update) THEN "update_status"
    ELSE "done"

\* the call after the reply: the status update, when there is one
AposReply(r, now) ==
    IF HasUpdate(Decisao(r, now).update) THEN "update_status" ELSE "done"

\* a status update that is applied only when the row still has the status read
StatusWriteCondicional(rows, r, now) ==
    IF rows[r.contact_id].status = r.current_status
    THEN UpdateById(rows, r.contact_id, Decisao(r, now).update)
    ELSE rows

\* update({...}).eq('id', contact_id): the status update of a request
StatusWrite(rows, r, now) ==
    UpdateById(rows, r.contact_id, Decisao(r, now).update)

\* the requests being served
EmCurso == { i \in 1..Len(inflight) : inflight[i].pc # "done" }

\* POST /api/disparar_template, between the calls of the webhook requests
DispararTemplateC ==
    /\ clock < MaxConcClock
    /\ LET r == DispararTemplateRun(contacts, sent, clock + 1,
                                    [numero |-> P1, nome |-> "Ana"], "none") IN
            /\ contacts' = r.contacts
            /\ sent' = r.sent
            /\ last' = r.last
    /\ clock' = clock + 1
    /\ UNCHANGED <<messages, inflight>>

\* POST /webhook arrives: the form is read
WebhookChega ==
    /\ clock < MaxConcClock
    /\ Cardinality(EmCurso) < Workers
    /\ \E b \in {K_sim, K_n, K_atendente, K_preenchido} :
         inflight' = Append(inflight,
                            NovoPedido([From |-> Whats(P1), Body |-> b,
                                        MessageSid |-> <<"SM", clock + 1>>],
                                       clock + 1))
    /\ clock' = clock + 1
    /\ UNCHANGED <<contacts, messages, sent, last>>

\* select('*').eq('phone', from_number_user)
WebhookSelect ==
    \E i \in EmCurso :
       /\ inflight[i].pc = "select"
       /\ LET r == inflight[i]
              data_ == SelectByPhone(contacts, r.From)
          IN inflight' =
               [inflight EXCEPT ![i] =
                  IF data_ = <<>> THEN [r EXCEPT !.pc = "done"]
                  ELSE [r EXCEPT !.pc = "insert",
                                 !.contact_id = data_[1].id,
                                 !.current_status = data_[1].status,
                                 !.contact_name = ContactName(data_[1], "Cliente")]]
       /\ UNCHANGED <<contacts, messages, sent, clock, last>>

\* table('WhatsAppMessages').insert(message_data)
WebhookInsert ==
    \E i \in EmCurso :
       /\ inflight[i].pc = "insert"
       /\ LET r == inflight[i] IN
            messages' = Append(messages,
                               MessageData(r.contact_id, r.original_body, clock,
                                           r.message_sid))
       /\ inflight' = [inflight EXCEPT ![i].pc = "update_last"]
       /\ UNCHANGED <<contacts, sent, clock, last>>

\* update({'lastMessage': ..., 'lastTimestamp': ..., 'unread': True})
WebhookUpdateLast ==
    \E i \in EmCurso :
       /\ inflight[i].pc = "update_last"
       /\ LET r == inflight[i] IN
            /\ contacts' = UpdateById(contacts, r.contact_id,
                                      [lastMessage |-> r.original_body,
                                       lastTimestamp |-> clock, unread |-> TRUE])
            /\ inflight' = [inflight EXCEPT ![i].pc = AposUpdateLast(r, clock)]
       /\ UNCHANGED <<messages, sent, clock, last>>

\* enviar_whatsapp(from_number_user, ...)
WebhookReply ==
    \E i \in EmCurso :
       /\ inflight[i].pc = "reply"
       /\ LET r == inflight[i] IN
            /\ sent' = Append(sent, Outbound(r.From, "text", Decisao(r, clock).reply,
                                             TRUE, clock))
            /\ inflight' = [inflight EXCEPT ![i].pc = AposReply(r, clock)]
       /\ UNCHANGED <<contacts, messages, clock, last>>

\* update({"status": ...}).eq('id', contact_id)
WebhookUpdateStatus ==
    \E i \in EmCurso :
       /\ inflight[i].pc = "update_status"
       /\ contacts' = StatusWrite(contacts, inflight[i], clock)
       /\ inflight' = [inflight EXCEPT ![i].pc = "done"]
       /\ UNCHANGED <<messages, sent, clock, last>>

NextConc ==
    \/ DispararTemplateC
    \/ WebhookChega
    \/ WebhookSelect
    \/ WebhookInsert
    \/ WebhookUpdateLast
    \/ WebhookReply
    \/ WebhookUpdateStatus

SpecConc == Init /\ [][NextConc]_vars

(* ------------------------------------------------------------------ *)
(* Vocabulary of the properties                                        *)
(* ------------------------------------------------------------------ *)

\* the affirmative and negative tokens as the specification lists them
TokensAfirmativos == {K_sim, K_s, K_yes, K_quero}
TokensNegativos == {K_nao_til, K_nao, K_n, K_no}

\* the contact rows stored under a phone
RowsOf(rows, phone) == SelectSeq(rows, LAMBDA r : r.phone = phone)

\* the messages handed to the provider by the request served at a given tick
SentAt(out, t) == SelectSeq(out, LAMBDA m : m.at = t)

\* the last request was a webhook call that found the sender's contact row
WebhookDeContato == last.op = "webhook" /\ last.found

\* the row of the contact the last webhook call was about
LastRow == contacts[last.contact_id]

\* the last webhook call handed exactly this one text to the dispatcher
UmaResposta(text) ==
    LET s == SentAt(sent, last.at) IN
        /\ Len(s) = 1
        /\ s[1].kind = "text"
        /\ s[1].to = last.From
        /\ s[1].text = text

\* a text holds a value among its segments
TextHas(text, v) == \E i \in 1..Len(text) : text[i] = v

\* this step serves a webhook call from a sender with a contact row
WebhookStep == clock' = clock + 1 /\ last'.op = "webhook"

(* ------------------------------------------------------------------ *)
(* C1                                                                  *)
(* ------------------------------------------------------------------ *)

\* C1: whatever status the contact's row holds, a webhook call from that contact
\* whose normalized body contains "atendente" leaves the row with status
\* "Aguardando Vendedor" and automationStatus "Pausada", hands exactly one text to
\* the dispatcher (the escalation acknowledgment) and writes nothing a
\* state-specific branch writes: besides the last-message columns, status and
\* automationStatus, the row is as before, and so are the other rows.
C1_AtendenteOverride ==
    [][ (WebhookStep /\ last'.found /\ Contains(K_atendente, last'.body)) =>
          LET id == last'.contact_id IN
            /\ contacts[id].status = last'.current_status
            /\ contacts'[id].status = "Aguardando Vendedor"
            /\ contacts'[id].automationStatus = "Pausada"
            /\ sent' = Append(sent, Outbound(last'.From, "text", MsgAtendente, TRUE,
                                             last'.at))
            /\ contacts'[id].termo_enviado_em = contacts[id].termo_enviado_em
            /\ contacts'[id].name = contacts[id].name
            /\ Len(contacts') = Len(contacts)
            /\ \A j \in 1..Len(contacts) : j # id => contacts'[j] = contacts[j]
      ]_vars

\* C1 witness: the override fired for a contact that had declined future contact
C1_Witness ==
    /\ WebhookDeContato
    /\ last.current_status = "recusou_contato_futuro"
    /\ Contains(K_atendente, last.body)
    /\ LastRow.status = "Aguardando Vendedor"

(* ------------------------------------------------------------------ *)
(* C2                                                                  *)
(* ------------------------------------------------------------------ *)

\* C2: for a contact read in status "inicial", a body without "atendente" that
\* contains an affirmative token (sim, s, yes, quero) as a substring leaves the
\* row in "aguardando_termo" and hands the dispatcher exactly one text, which
\* holds the term-document link; a negative token in the same body changes nothing.
C2_InicialAfirmativo ==
    (/\ WebhookDeContato
     /\ last.current_status = "inicial"
     /\ ~Contains(K_atendente, last.body)
     /\ AnyIn(TokensAfirmativos, last.body))
    => /\ LastRow.status = "aguardando_termo"
       /\ UmaResposta(MsgTermo(last.contact_name))
       /\ TextHas(SentAt(sent, last.at)[1].text, TERMO_URL)

\* C2 witness: a body with both an affirmative and a negative token took the
\* affirmative branch
C2_Witness ==
    /\ WebhookDeContato
    /\ last.current_status = "inicial"
    /\ AnyIn(TokensNegativos, last.body)
    /\ Contains(K_quero, last.body) \/ Contains(K_s, last.body)
    /\ ~Contains(K_atendente, last.body)
    /\ LastRow.status = "aguardando_termo"

(* ------------------------------------------------------------------ *)
(* C3                                                                  *)
(* ------------------------------------------------------------------ *)

\* C3 as stated: for a contact read in status "inicial", every body that contains
\* a negative token (não, nao, n, no) leaves the row in "oferta_futura" and sends
\* the future-offer question.
C3_Original ==
    (/\ WebhookDeContato
     /\ last.current_status = "inicial"
     /\ AnyIn(TokensNegativos, last.body))
    => /\ LastRow.status = "oferta_futura"
       /\ UmaResposta(MsgOfertaFutura(last.contact_name))

\* C3 amended: for a contact read in status "inicial", every body that contains a
\* negative token, no affirmative token and not "atendente" leaves the row in
\* "oferta_futura" and sends the future-offer question, once.
C3_InicialNegativo ==
    (/\ WebhookDeContato
     /\ last.current_status = "inicial"
     /\ AnyIn(TokensNegativos, last.body)
     /\ ~AnyIn(TokensAfirmativos, last.body)
     /\ ~Contains(K_atendente, last.body))
    => /\ LastRow.status = "oferta_futura"
       /\ UmaResposta(MsgOfertaFutura(last.contact_name))

\* C3 witness: the one-letter answer "n" moved the contact to "oferta_futura"
C3_Witness ==
    /\ WebhookDeContato
    /\ last.current_status = "inicial"
    /\ last.body = K_n
    /\ LastRow.status = "oferta_futura"

(* ------------------------------------------------------------------ *)
(* C4                                                                  *)
(* ------------------------------------------------------------------ *)

\* C4: for a contact read in status "aguardando_termo" and a body without
\* "atendente": the row ends in "pos_termo" exactly when the body contains
\* "preenchido", and then termo_enviado_em holds the time of the call; otherwise
\* the row stays in "aguardando_termo" and the reminder is sent exactly once.
C4_AguardandoTermo ==
    (/\ WebhookDeContato
     /\ last.current_status = "aguardando_termo"
     /\ ~Contains(K_atendente, last.body))
    => /\ LastRow.status = "pos_termo" <=> Contains(K_preenchido, last.body)
       /\ Contains(K_preenchido, last.body) => LastRow.termo_enviado_em = last.at
       /\ ~Contains(K_preenchido, last.body) =>
             /\ LastRow.status = "aguardando_termo"
             /\ UmaResposta(MsgLembreteTermo)

\* C4 witness: an affirmative answer that is not the keyword got the reminder
C4_Witness ==
    /\ WebhookDeContato
    /\ last.current_status = "aguardando_termo"
    /\ last.body = K_sim
    /\ LastRow.status = "aguardando_termo"
    /\ UmaResposta(MsgLembreteTermo)

(* ------------------------------------------------------------------ *)
(* C5                                                                  *)
(* ------------------------------------------------------------------ *)

\* C5 as stated (for bodies without "atendente", which C1 covers): for a contact
\* read in status "oferta_futura", a body containing an affirmative token of
\* {sim, s, yes, quero} leaves the row in "aguardando_oferta_futura" with
\* automationStatus "Pausada" and sends the confirmation; a body containing a
\* negative token and no affirmative token leaves it in "recusou_contato_futuro"
\* with automationStatus "Concluída" and sends the farewell.
C5_OfertaFutura ==
    (/\ WebhookDeContato
     /\ last.current_status = "oferta_futura"
     /\ ~Contains(K_atendente, last.body))
    => /\ AnyIn(TokensAfirmativos, last.body) =>
             /\ LastRow.status = "aguardando_oferta_futura"
             /\ LastRow.automationStatus = "Pausada"
             /\ UmaResposta(MsgConfirmado(last.contact_name))
       /\ (AnyIn(TokensNegativos, last.body) /\ ~AnyIn(TokensAfirmativos, last.body)) =>
             /\ LastRow.status = "recusou_contato_futuro"
             /\ LastRow.automationStatus = "Concluída"
             /\ UmaResposta(MsgFinal(last.contact_name))

(* ------------------------------------------------------------------ *)
(* C6                                                                  *)
(* ------------------------------------------------------------------ *)

\* C6: a webhook call without a sender phone, or from a phone no contact row is
\* stored under, leaves the contacts table, the message log and the outbox as
\* they were, and answers ("OK", 200).
C6_SemContato ==
    [][ (/\ WebhookStep
         /\ \/ Falsy(last'.From)
            \/ RowsOf(contacts, last'.From) = <<>>)
        => /\ UNCHANGED <<contacts, messages, sent>>
           /\ last'.resp = Response("OK", 200)
      ]_vars

\* C6 witness: a message from an unknown phone was served while a contact exists
C6_Witness ==
    /\ last.op = "webhook"
    /\ last.From = Whats(P3)
    /\ ~last.found
    /\ Len(contacts) > 0
    /\ last.resp = Response("OK", 200)

(* ------------------------------------------------------------------ *)
(* C7                                                                  *)
(* ------------------------------------------------------------------ *)

\* C7: every webhook call answers ("OK", 200): also when the contact lookup, the
\* message insert or a contact update raises, and when the provider refuses the
\* reply.
C7_SempreOK ==
    last.op = "webhook" => last.resp = Response("OK", 200)

\* C7 witness: the provider refused the reply, the status update raised, and the
\* call still answered ("OK", 200)
C7_Witness ==
    /\ last.op = "webhook"
    /\ last.raised
    /\ Len(SentAt(sent, last.at)) = 1
    /\ ~SentAt(sent, last.at)[1].ok
    /\ last.resp = Response("OK", 200)

(* ------------------------------------------------------------------ *)
(* C8                                                                  *)
(* ------------------------------------------------------------------ *)

\* the indices of a list, in order
Indices(n) == [i \in 1..n |-> i]

\* element i of the last batch has no phone number
SemNumero(i) == Falsy(Get(last.data.contatos[i], "numero", None))

\* element i of the last batch was dispatched without a call raising
Despachado(i) == ~SemNumero(i) /\ last.faults[i] = "none"

\* the last request was a batch trigger over a non-empty list
LoteServido ==
    /\ last.op = "disparar_lote"
    /\ "contatos" \in DOMAIN last.data
    /\ last.data.contatos # <<>>

\* C8: a batch over a non-empty list of N elements answers 200 with every element
\* in exactly one of sucessos and falhas, each list in input order: sucessos holds
\* the elements whose dispatch succeeded, falhas the others; a falhas entry has
\* the reason "Número ausente" exactly when its element has no number, so M such
\* entries for M elements without number; and an element is processed whatever
\* happened to the elements before it (its contact row is stored, its template
\* handed to the provider).
C8_Lote ==
    LoteServido =>
      LET cs == last.data.contatos
          N == Len(cs)
          res == last.resp.body
          ok == SelectSeq(Indices(N), Despachado)
          ko == SelectSeq(Indices(N), LAMBDA i : ~Despachado(i))
      IN
        /\ last.resp.code = 200
        /\ Len(res.sucessos) + Len(res.falhas) = N
        /\ Len(res.sucessos) = Len(ok)
        /\ \A k \in 1..Len(ok) : res.sucessos[k].contato = cs[ok[k]]
        /\ Len(res.falhas) = Len(ko)
        /\ \A k \in 1..Len(ko) :
              /\ res.falhas[k].contato = cs[ko[k]]
              /\ res.falhas[k].motivo = "Número ausente" <=> SemNumero(ko[k])
        /\ Cardinality({k \in 1..Len(res.falhas) : res.falhas[k].motivo = "Número ausente"})
             = Cardinality({i \in 1..N : SemNumero(i)})
        /\ \A i \in 1..N :
              (~SemNumero(i) /\ last.faults[i] # "upsert") =>
                 /\ RowsOf(contacts, Normaliza(cs[i].numero)) # <<>>
                 /\ \E m \in 1..Len(sent) :
                       /\ sent[m].at = last.at + i - 1
                       /\ sent[m].kind = "template"
                       /\ sent[m].to = Normaliza(cs[i].numero)

\* C8 witness: a batch of three: no number, then a refused template, then a success
C8_Witness ==
    /\ LoteServido
    /\ Len(last.data.contatos) = 3
    /\ SemNumero(1)
    /\ last.faults[2] = "send"
    /\ Despachado(3)
    /\ Len(last.resp.body.sucessos) = 1
    /\ Len(last.resp.body.falhas) = 2

(* ------------------------------------------------------------------ *)
(* C9                                                                  *)
(* ------------------------------------------------------------------ *)

\* no two rows of the contacts table hold the same phone
PhoneUnico(rows) ==
    \A i, j \in 1..Len(rows) : rows[i].phone = rows[j].phone => i = j

\* this step serves a single trigger whose upsert was executed
UpsertStep ==
    /\ clock' = clock + 1
    /\ last'.op = "disparar_template"
    /\ ~Falsy(last'.numero)
    /\ last'.fault # "upsert"

\* C9: after every request the contacts table holds at most one row per phone;
\* a single trigger whose upsert is executed leaves exactly one row under the
\* normalized phone, with the trigger's name (or "Cliente"), status "inicial" and
\* automationStatus "Ativa"; when a row was stored under that phone before, it is
\* that row (same id, table of the same length) and its other columns are kept.
C9_Upsert ==
    [][ /\ PhoneUnico(contacts')
        /\ UpsertStep =>
             LET phone == last'.numero
                 antes == RowsOf(contacts, phone)
                 depois == RowsOf(contacts', phone)
             IN /\ phone = Normaliza(last'.data.numero)
                /\ Len(depois) = 1
                /\ depois[1].name = Get(last'.data, "nome", "Cliente")
                /\ depois[1].status = "inicial"
                /\ depois[1].automationStatus = "Ativa"
                /\ antes # <<>> =>
                      /\ Len(contacts') = Len(contacts)
                      /\ depois[1].id = antes[1].id
                      /\ depois[1].lastMessage = antes[1].lastMessage
                      /\ depois[1].termo_enviado_em = antes[1].termo_enviado_em
                /\ antes = <<>> => Len(contacts') = Len(contacts) + 1
      ]_vars

\* C9 witness: a contact triggered as "+1"/Ana answered "sim" and was triggered
\* again as "whatsapp:+1" without a name: one row, renamed, back in "inicial"
C9_Witness ==
    /\ last.op = "disparar_template"
    /\ last.data = [numero |-> Whats(P1)]
    /\ last.fault = "none"
    /\ \E m \in 1..Len(sent) : sent[m].kind = "template" /\ TextHas(sent[m].text, "Ana")
    /\ Len(contacts) = 1
    /\ contacts[1].name = "Cliente"
    /\ contacts[1].status = "inicial"
    /\ contacts[1].lastMessage = K_sim

(* ------------------------------------------------------------------ *)
(* C10                                                                 *)
(* ------------------------------------------------------------------ *)

\* this step serves a single trigger for a phone
DisparoStep ==
    /\ clock' = clock + 1
    /\ last'.op = "disparar_template"
    /\ ~Falsy(last'.numero)

\* C10: in a trigger for one phone the upsert comes before the template: when
\* the upsert fails nothing is handed to the provider and the answer is an error;
\* when the upsert succeeds and the send fails the answer is an error, no
\* template was delivered, and the contact's row is stored with status "inicial".
C10_UpsertAntesDoEnvio ==
    [][ DisparoStep =>
          LET row == RowsOf(contacts', last'.numero) IN
            /\ last'.fault = "upsert" =>
                  /\ sent' = sent
                  /\ last'.resp.body.status = "erro"
                  /\ last'.resp.code = 500
            /\ last'.fault = "send" =>
                  /\ last'.resp.body.status = "erro"
                  /\ last'.resp.code = 500
                  /\ \A m \in 1..Len(sent') : sent'[m].at = last'.at => ~sent'[m].ok
                  /\ Len(row) = 1
                  /\ row[1].status = "inicial"
                  /\ row[1].automationStatus = "Ativa"
            /\ last'.fault = "none" =>
                  /\ last'.resp.body.status = "sucesso"
                  /\ Len(row) = 1
                  /\ sent' = Append(sent, Outbound(last'.numero, "template",
                                       sent'[Len(sent')].text, TRUE, last'.at))
      ]_vars

\* C10 witness: the first trigger of a phone stored the row and the send failed:
\* the row is there, in "inicial", and no template was ever delivered to it
C10_Witness ==
    /\ last.op = "disparar_template"
    /\ last.fault = "send"
    /\ last.resp.code = 500
    /\ Len(RowsOf(contacts, last.numero)) = 1
    /\ RowsOf(contacts, last.numero)[1].status = "inicial"
    /\ \A m \in 1..Len(sent) : sent[m].to = last.numero => ~sent[m].ok

(* ------------------------------------------------------------------ *)
(* C11                                                                 *)
(* ------------------------------------------------------------------ *)

\* C11 as stated: every free text handed to the provider for a phone comes after
\* a template that was delivered to that same phone.
C11_TemplatePrimeiro ==
    \A i \in 1..Len(sent) :
        sent[i].kind = "text" =>
            \E j \in 1..(i - 1) :
                /\ sent[j].kind = "template"
                /\ sent[j].to = sent[i].to
                /\ sent[j].ok

(* ------------------------------------------------------------------ *)
(* C12                                                                 *)
(* ------------------------------------------------------------------ *)

\* C12 as stated: the message log holds as many outbound entries (entries whose
\* sender is not the user) as messages were delivered by the provider.
C12_EnviosNoLog ==
    Len(SelectSeq(messages, LAMBDA e : e.sender # "user"))
        = Len(SelectSeq(sent, LAMBDA m : m.ok))

(* ------------------------------------------------------------------ *)
(* C13                                                                 *)
(* ------------------------------------------------------------------ *)

\* the reminders in an outbox for a phone
Lembretes(out, phone) ==
    SelectSeq(out, LAMBDA m : m.text = MsgFollowup /\ m.to = phone)

\* the contact of SpecPoller is in "pos_termo"
EmPosTermo == Len(contacts) > 0 /\ contacts[1].status = "pos_termo"

\* what a poller run does to every contact
PollerEfeito ==
    (last'.op = "poller" /\ <<contacts, sent, last>> # <<contacts', sent', last'>>) =>
       /\ Len(contacts') = Len(contacts)
       /\ \A i \in 1..Len(contacts) :
             LET antes == contacts[i]
                 depois == contacts'[i]
                 novos == Len(Lembretes(sent', antes.phone))
                            - Len(Lembretes(sent, antes.phone))
             IN IF /\ antes.status = "pos_termo"
                   /\ antes.termo_enviado_em # NoTime
                   /\ clock >= antes.termo_enviado_em + FollowupDelay
                THEN /\ depois.status = "followup_enviado"
                     /\ novos = 1
                ELSE /\ depois = antes
                     /\ novos = 0

NumerosDisparados ==
    { Get(k, "numero", None) : k \in { c \in ItemKinds : ~Falsy(Get(c, "numero", None)) } }

\* C14: normalizing a number that starts with "whatsapp:" returns it unchanged,
\* normalizing twice is normalizing once, and "+X" and "whatsapp:+X" normalize
\* to the same phone; so every stored phone and every recipient is its own
\* normal form, and the table never holds one row for "+X" and another for
\* "whatsapp:+X": both triggers address the same row.
C14_Normalizacao ==
    /\ \A n \in NumerosDisparados :
          /\ Normaliza(Normaliza(n)) = Normaliza(n)
          /\ StartsWith(n, K_whatsapp) => Normaliza(n) = n
          /\ ~StartsWith(n, K_whatsapp) => Normaliza(K_whatsapp \o n) = Normaliza(n)
          /\ Len(RowsOf(contacts, Normaliza(n))) <= 1
    /\ \A i \in 1..Len(contacts) :
          /\ Normaliza(contacts[i].phone) = contacts[i].phone
          /\ \E n \in NumerosDisparados : contacts[i].phone = Normaliza(n)
          /\ \A j \in 1..Len(contacts) :
                contacts[j].phone # K_whatsapp \o contacts[i].phone
    /\ \A m \in 1..Len(sent) : Normaliza(sent[m].to) = sent[m].to

\* C14 witness: one batch triggered "+1" and then "whatsapp:+1", both were
\* dispatched, and the table holds the one row "whatsapp:+1"
C14_Witness ==
    /\ last.op = "disparar_lote"
    /\ "contatos" \in DOMAIN last.data
    /\ last.data.contatos = <<[numero |-> P1, nome |-> "Ana"], [numero |-> Whats(P1)]>>
    /\ \A i \in 1..2 : last.faults[i] = "none"
    /\ Len(contacts) = 1
    /\ contacts[1].phone = Whats(P1)
    /\ Len(SelectSeq(sent, LAMBDA m : m.to = Whats(P1) /\ m.kind = "template" /\ m.ok)) = 2

(* ------------------------------------------------------------------ *)
(* C15                                                                 *)
(* ------------------------------------------------------------------ *)

\* request i found its contact and has made the call named by pc
Passou(i, pcs) ==
    /\ inflight[i].contact_id # 0
    /\ inflight[i].pc \in pcs

\* request i answered: its reply is the one decided from the status it read
RespondeuDoLido(i) ==
    LET r == inflight[i] IN
       Decisao(r, r.at).reply # NoReply =>
          \E m \in 1..Len(sent) :
             /\ sent[m].to = r.From
             /\ sent[m].text = Decisao(r, r.at).reply
             /\ sent[m].at >= r.at

\* this step is the status update of request i
EscreveStatus(i) ==
    /\ i \in 1..Len(inflight)
    /\ inflight[i].pc = "update_status"
    /\ inflight'[i].pc = "done"

\* C15: concurrent webhook requests of one contact decide from the status each
\* of them read: a request that is past its reply has sent the reply decided
\* from the status it read, whatever the stored status has become, and its
\* status update is written whatever the stored status has become, so the
\* stored status is the one of the update written last and a transition written
\* between the read and the update is lost.
C15_LostUpdate ==
    [][ /\ \A i \in 1..Len(inflight') :
              (inflight'[i].contact_id # 0 /\ inflight'[i].pc \in {"update_status", "done"}) =>
                 LET r == inflight'[i] IN
                    Decisao(r, r.at).reply # NoReply =>
                       \E m \in 1..Len(sent') :
                          /\ sent'[m].to = r.From
                          /\ sent'[m].text = Decisao(r, r.at).reply
                          /\ sent'[m].at >= r.at
        /\ \A i \in 1..Len(inflight) :
              EscreveStatus(i) =>
                 contacts'[inflight[i].contact_id].status
                    = Decisao(inflight[i], clock).update.status
      ]_vars

\* C15 witness: "sim" and "n" were served together, both read "inicial", both
\* got their reply, and the stored status is "aguardando_termo": the transition
\* to "oferta_futura" is lost
C15_Witness ==
    /\ Len(inflight) = 2
    /\ \A i \in 1..2 : Passou(i, {"done"}) /\ inflight[i].current_status = "inicial"
                       /\ RespondeuDoLido(i)
    /\ {inflight[1].body, inflight[2].body} = {K_sim, K_n}
    /\ \E m \in 1..Len(sent) : sent[m].text = MsgTermo("Ana")
    /\ \E m \in 1..Len(sent) : sent[m].text = MsgOfertaFutura("Ana")
    /\ contacts[1].status = "aguardando_termo"

(* ------------------------------------------------------------------ *)
(* C16                                                                 *)
(* ------------------------------------------------------------------ *)

\* the entries of a log for a provider message identifier
EntradasDe(log, sid) == SelectSeq(log, LAMBDA e : e.messageIdFromApi = sid)

\* the calls of a request that come after the insert
DepoisDoInsert == {"update_last", "reply", "update_status", "done"}

\* C16: a webhook request of a known contact that is past its insert has exactly
\* one entry in the message log, with the contact id, sender "user", the original
\* text and the provider's message identifier, whatever the status it read and
\* whatever the decision; a request before its insert, or of an unknown sender,
\* has none.  The update that follows writes lastMessage, lastTimestamp and
\* unread and neither a reply nor a status; a request gets to its reply or to
\* its status update only from there, and every reply and every status change
\* of a webhook is made by a request that is past both.
C16_InboundPrimeiro ==
    [][ /\ \A i \in 1..Len(inflight') :
              LET r == inflight'[i]
                  mine == EntradasDe(messages', r.message_sid)
              IN IF r.contact_id # 0 /\ r.pc \in DepoisDoInsert
                 THEN /\ Len(mine) = 1
                      /\ mine[1].contactId = r.contact_id
                      /\ mine[1].sender = "user"
                      /\ mine[1].text = r.original_body
                 ELSE mine = <<>>
        /\ \A i \in 1..Len(inflight) :
              LET r == inflight[i] IN
                 /\ (r.pc = "update_last" /\ inflight'[i].pc # "update_last") =>
                       /\ contacts'[r.contact_id].lastMessage = r.original_body
                       /\ contacts'[r.contact_id].lastTimestamp = clock
                       /\ contacts'[r.contact_id].unread = TRUE
                       /\ contacts'[r.contact_id].status = contacts[r.contact_id].status
                       /\ sent' = sent
                 /\ (inflight'[i].pc \in {"reply", "update_status"}
                       /\ inflight'[i].pc # r.pc) => r.pc \in {"update_last", "reply"}
        /\ (clock' = clock /\ sent' # sent) =>
              \E i \in 1..Len(inflight) : inflight[i].pc = "reply"
        /\ (clock' = clock /\ \E c \in 1..Len(contacts) :
                                 contacts'[c].status # contacts[c].status) =>
              \E i \in 1..Len(inflight) : inflight[i].pc = "update_status"
      ]_vars

\* C16 witness: a message the state machine ignores ("sim" read under
\* "Aguardando Vendedor") is in the log once and in the contact's last-message
\* fields, and no reply was sent for it
C16_Witness ==
    \E i \in 1..Len(inflight) :
       /\ Passou(i, {"done"})
       /\ inflight[i].current_status = "Aguardando Vendedor"
       /\ inflight[i].body = K_sim
       /\ Len(EntradasDe(messages, inflight[i].message_sid)) = 1
       /\ contacts[inflight[i].contact_id].lastMessage = inflight[i].original_body
       /\ contacts[inflight[i].contact_id].unread = TRUE
       /\ \A m \in 1..Len(sent) : sent[m].at < inflight[i].at

(* ------------------------------------------------------------------ *)
(* C17                                                                 *)
(* ------------------------------------------------------------------ *)

\* the statuses marked terminal, and the statuses without a branch
Terminais == {"aguardando_oferta_futura", "recusou_contato_futuro", "Aguardando Vendedor"}
Passivos == Terminais \cup {"pos_termo"}

\* C17: a webhook call that reads "pos_termo" or a terminal status and whose
\* body does not contain "atendente" hands nothing to the dispatcher and leaves
\* the row's status, automationStatus and termo_enviado_em as they were; and a
\* row whose status is terminal gets a status that is not terminal only by a
\* trigger for its phone, which sets "inicial".
C17_Passivo ==
    [][ /\ (/\ WebhookStep
            /\ last'.found
            /\ last'.current_status \in Passivos
            /\ ~Contains(K_atendente, last'.body)) =>
              LET id == last'.contact_id IN
                 /\ sent' = sent
                 /\ last'.reply = NoReply
                 /\ contacts'[id].status = contacts[id].status
                 /\ contacts'[id].status = last'.current_status
                 /\ contacts'[id].automationStatus = contacts[id].automationStatus
                 /\ contacts'[id].termo_enviado_em = contacts[id].termo_enviado_em
        /\ \A i \in 1..Len(contacts) :
              (contacts[i].status \in Terminais /\ contacts'[i].status \notin Terminais) =>
                 /\ last'.op = "disparar_template"
                 /\ last'.numero = contacts[i].phone
                 /\ contacts'[i].status = "inicial"
      ]_vars

\* C17 witness: a contact that declined future contact wrote "sim", got nothing
\* and stays in "recusou_contato_futuro" / "Concluída"
C17_Witness ==
    /\ WebhookDeContato
    /\ last.current_status = "recusou_contato_futuro"
    /\ last.body = K_sim
    /\ last.reply = NoReply
    /\ SentAt(sent, last.at) = <<>>
    /\ LastRow.status = "recusou_contato_futuro"
    /\ LastRow.automationStatus = "Concluída"

(* ------------------------------------------------------------------ *)
(* C18                                                                 *)
(* ------------------------------------------------------------------ *)

\* the automation flag the claim gives each status
FlagDe(status) ==
    IF status \in {"Aguardando Vendedor", "aguardando_oferta_futura"} THEN "Pausada"
    ELSE IF status = "recusou_contato_futuro" THEN "Concluída"
    ELSE "Ativa"

\* C18 as stated: in every reachable state, interleaved webhook and trigger
\* requests included, every row's automationStatus is the one of its status:
\* "Pausada" for "Aguardando Vendedor" and "aguardando_oferta_futura",
\* "Concluída" for "recusou_contato_futuro", "Ativa" for "inicial",
\* "aguardando_termo", "oferta_futura" and "pos_termo".
C18_FlagConcorda ==
    \A i \in 1..Len(contacts) :
       /\ contacts[i].status \in {"inicial", "aguardando_termo", "oferta_futura", "pos_termo",
                                  "Aguardando Vendedor", "aguardando_oferta_futura",
                                  "recusou_contato_futuro"}
       /\ contacts[i].automationStatus = FlagDe(contacts[i].status)

(* ------------------------------------------------------------------ *)
(* C19                                                                 *)
(* ------------------------------------------------------------------ *)

\* the provider refused the reply of the webhook call served by this step
RespostaRecusada ==
    /\ WebhookStep
    /\ last'.found
    /\ last'.fault = "none"
    /\ \E m \in 1..Len(sent') : sent'[m].at = last'.at /\ ~sent'[m].ok

\* C19: when the provider refuses the reply of a webhook call (and no store
\* call raises), nothing is raised: the call answers 200 "OK", nothing was
\* delivered, and the update of the transition is written as decided: status,
\* and automationStatus and termo_enviado_em where the transition sets them.
C19_EnvioFalhoEngolido ==
    [][ RespostaRecusada =>
          LET id == last'.contact_id
              u == last'.update
              s == SentAt(sent', last'.at)
          IN /\ ~last'.raised
             /\ last'.resp = Response("OK", 200)
             /\ Len(s) = 1
             /\ s[1].text = last'.reply
             /\ ~s[1].ok
             /\ IF HasUpdate(u)
                THEN /\ contacts'[id].status = u.status
                     /\ "automationStatus" \in DOMAIN u =>
                           contacts'[id].automationStatus = u.automationStatus
                     /\ "automationStatus" \notin DOMAIN u =>
                           contacts'[id].automationStatus = contacts[id].automationStatus
                     /\ "termo_enviado_em" \in DOMAIN u =>
                           contacts'[id].termo_enviado_em = u.termo_enviado_em
                ELSE /\ contacts'[id].status = contacts[id].status
                     /\ contacts'[id].automationStatus = contacts[id].automationStatus
      ]_vars

\* C19 witness: the escalation acknowledgment was refused by the provider and
\* the contact is in "Aguardando Vendedor" / "Pausada" all the same
C19_Witness ==
    /\ WebhookDeContato
    /\ last.fault = "none"
    /\ ~last.raised
    /\ last.current_status = "inicial"
    /\ last.body = K_atendente
    /\ SentAt(sent, last.at) # <<>>
    /\ \A m \in 1..Len(sent) : sent[m].at = last.at => ~sent[m].ok
    /\ LastRow.status = "Aguardando Vendedor"
    /\ LastRow.automationStatus = "Pausada"

(* ------------------------------------------------------------------ *)
(* C20                                                                 *)
(* ------------------------------------------------------------------ *)

\* this step is a trigger served for the phone of row i, which existed
Redisparo(i) ==
    /\ clock' = clock + 1
    /\ last'.op = "disparar_template"
    /\ last'.resp.code = 200
    /\ last'.numero = contacts[i].phone

\* C20: every row in "pos_termo" has a termo_enviado_em; a row gets the status
\* "pos_termo" only in a webhook call for that row that read "aguardando_termo",
\* which writes the time of the call; and a trigger for a row that exists sets
\* its status to "inicial" and keeps its termo_enviado_em.
C20_TermoEnviadoEm ==
    [][ \A i \in 1..Len(contacts) :
           /\ contacts'[i].status = "pos_termo" => contacts'[i].termo_enviado_em # NoTime
           /\ (contacts'[i].status = "pos_termo" /\ contacts[i].status # "pos_termo") =>
                 /\ WebhookStep
                 /\ last'.found
                 /\ last'.contact_id = i
                 /\ last'.current_status = "aguardando_termo"
                 /\ contacts'[i].termo_enviado_em = last'.at
           /\ Redisparo(i) =>
                 /\ contacts'[i].status = "inicial"
                 /\ contacts'[i].termo_enviado_em = contacts[i].termo_enviado_em
      ]_vars

\* C20 witness: a contact that confirmed the term was triggered again: it is
\* back in "inicial" with the time of its confirmation
C20_Witness ==
    /\ last.op = "disparar_template"
    /\ last.resp.code = 200
    /\ \E i \in 1..Len(contacts) :
          /\ contacts[i].phone = last.numero
          /\ contacts[i].status = "inicial"
          /\ contacts[i].termo_enviado_em # NoTime
          /\ contacts[i].termo_enviado_em < last.at

====
